---- MODULE Spec2Model ----
(***************************************************************************)
(* Minutes Studio: the /api/minutes request handler (route.ts) and the     *)
(* functions it sequences, the /api/upload/sign handler, and the two pages *)
(* (audio client, transcript client), as state machines.                   *)
(* Spec serves one /api/minutes request, SpecSign one /api/upload/sign     *)
(* request, SpecClient one visit of a page; SpecSummarize, SpecStyle,      *)
(* SpecExport and SpecHints call one function alone, and SpecTextCall      *)
(* calls the transcript page's processWithAI during a visit.               *)
(*                                                                         *)
(* A JavaScript string is a sequence of tokens; the empty string is << >>. *)
(* File names, file contents and whitespace are spelled one character per  *)
(* token; a run of n filler characters in a document is the one token      *)
(* Fill(n), which Length counts as n characters.  A fixed literal of the    *)
(* source (a Japanese message, a header value) is one token named in       *)
(* ASCII, with the literal quoted beside it.                               *)
(* A JavaScript object is a function from its property names to values: a  *)
(* property the code never sets is absent from the DOMAIN.                 *)
(***************************************************************************)
EXTENDS Integers, Sequences, FiniteSets, TLC

\* ------------------------------------------------------------------ bounds
MaxAudio == 2        \* direct audio files in one request
MaxKeys == 1         \* storage keys in one request

\* --------------------------------------------------------- string helpers
Str(tok) == <<tok>>
EMPTY == << >>
Truthy(s) == s # EMPTY
OrElse(a, b) == IF Truthy(a) THEN a ELSE b          \* a || b on strings
Fill(n) == "x{" \o ToString(n) \o "}"               \* n filler characters
FillSizes == {99, 199, 200}
Width(tok) ==
  IF \E n \in FillSizes : tok = Fill(n)
    THEN CHOOSE n \in FillSizes : tok = Fill(n)
    ELSE 1
RECURSIVE Length(_)
Length(s) == IF s = << >> THEN 0 ELSE Width(s[1]) + Length(Tail(s))   \* s.length
SEP == <<"\n", "\n">>                                \* "\n\n"
WS == {" ", "\n", "\t", "\r"}
IsBlank(s) == \A j \in 1..Len(s) : s[j] \in WS      \* !s.trim()

RECURSIVE Join(_, _)
Join(parts, sep) ==                                  \* Array.prototype.join
  IF parts = << >> THEN EMPTY
  ELSE IF Len(parts) = 1 THEN parts[1]
  ELSE parts[1] \o sep \o Join(Tail(parts), sep)

FilterBoolean(parts) == SelectSeq(parts, Truthy)     \* .filter(Boolean)

UpperCase == <<"A","B","C","D","E","F","G","H","I","J","K","L","M","N","O","P","Q","R",
               "S","T","U","V","W","X","Y","Z">>
LowerCase == <<"a","b","c","d","e","f","g","h","i","j","k","l","m","n","o","p","q","r",
               "s","t","u","v","w","x","y","z">>
LowerMap ==
  [c \in { UpperCase[j] : j \in 1..26 } |->
     LowerCase[CHOOSE j \in 1..26 : UpperCase[j] = c]]
ToLowerCase(s) == [j \in 1..Len(s) |-> IF s[j] \in DOMAIN LowerMap THEN LowerMap[s[j]] ELSE s[j]]
EndsWith(s, suf) ==
  /\ Len(s) >= Len(suf)
  /\ SubSeq(s, Len(s) - Len(suf) + 1, Len(s)) = suf
Includes(header, part) == \E j \in 1..Len(header) : header[j] = part

\* ------------------------------------------------------ literals of route.ts
MOCK_TRANSCRIPT_ALL == Str("MOCK_TRANSCRIPT_ALL")   \* "【モック転記】AIキー未設定のためダミーの議事録本文です。"
MOCK_TRANSCRIPT == Str("MOCK_TRANSCRIPT")           \* "【モック転記】AIキー未設定のためダミー本文。"
MOCK_SUMMARY == Str("MOCK_SUMMARY")                 \* "【モック要約】主要論点と次回アクションを整理しました。"
SUMMARY_PARSE_FAILED == Str("SUMMARY_PARSE_FAILED") \* "要約の解析に失敗しました。"
UNKNOWN_ERROR == Str("Unknown error")
TRANSCRIPT_NOT_DEFINED == Str("transcript is not defined")
DEFAULT_AUDIO_NAME == Str("audio.mp3")
MinGuidelineCorpus == 200                            \* corpus.length < 200

\* -------------------------------------------------------------- the inputs
Digits == <<"1", "2", "3", "4", "5", "6">>
AudioFile(n) == [name |-> <<"a", Digits[n]>>, type |-> Str("audio/mpeg")]
AudioList(n) == [j \in 1..n |-> AudioFile(j)]
KeyNames == <<"k1.mp3", "k2.mp3", "k3.mp3", "k4.mp3">>
StorageKey(n) == <<"uploads", KeyNames[n]>>          \* "uploads/k1.mp3" as its "/"-separated segments
KeyList(n) == [j \in 1..n |-> StorageKey(j)]

StyleFile(name, content) == [name |-> name, content |-> content]
TXT == <<".", "t", "x", "t">>
MD == <<".", "m", "d">>
DOCX == <<".", "d", "o", "c", "x">>
HTML == <<".", "h", "t", "m", "l">>
HTM == <<".", "h", "t", "m">>
\* no style file; a .txt of 199 characters; a .TXT of 200; a .md and a .docx of
\* 99 each (200 once joined); a small .html
StyleLists ==
  { << >>,
    << StyleFile(<<"s">> \o TXT, <<Fill(199)>>) >>,
    << StyleFile(<<"S">> \o <<".", "T", "X", "T">>, <<Fill(200)>>) >>,
    << StyleFile(<<"m">> \o MD, <<Fill(99)>>), StyleFile(<<"d">> \o DOCX, <<Fill(99)>>) >>,
    << StyleFile(<<"p">> \o HTML, <<"<", "b", ">", "q", "<", "/", "b", ">">>) >> }

CT_MULTIPART == <<"multipart/form-data", "; boundary=b">>
CT_JSON == <<"application/json">>
CT_OTHER == <<"text/plain">>

\* the "transcript" form field the transcript client sends: "", "  " or "hi"
TranscriptFields == { << EMPTY >>, << <<" ", " ">> >>, << <<"h", "i">> >> }

\* multipart with audio, style files and s3Key fields; multipart with the
\* transcript field and style files; JSON {s3Keys}; any other body
Requests ==
  { [contentType |-> CT_MULTIPART, audio |-> AudioList(a), style |-> st,
     keys |-> KeyList(n), transcript |-> << >>] :
        a \in 0..MaxAudio, st \in StyleLists, n \in 0..MaxKeys }
  \cup
  { [contentType |-> CT_MULTIPART, audio |-> << >>, style |-> st,
     keys |-> << >>, transcript |-> t] : st \in StyleLists, t \in TranscriptFields }
  \cup
  { [contentType |-> CT_JSON, audio |-> << >>, style |-> << >>,
     keys |-> KeyList(n), transcript |-> << >>] : n \in 0..MaxKeys }
  \cup
  { [contentType |-> CT_OTHER, audio |-> << >>, style |-> << >>,
     keys |-> << >>, transcript |-> << >>] }

\* process.env: a variable is its value, EMPTY when unset or empty
EnvValue == { EMPTY, Str("set") }
EnvNames ==
  { "OPENAI_API_KEY", "AWS_REGION", "AWS_S3_BUCKET", "AWS_ACCESS_KEY_ID",
    "AWS_SECRET_ACCESS_KEY" }
\* the environments a request is served in: the AI key set or not, and the four
\* storage settings all set or all but one of them
Envs ==
  { e \in [EnvNames -> EnvValue] :
      Cardinality({ n \in EnvNames \ {"OPENAI_API_KEY"} : e[n] = EMPTY }) <= 1 }

\* what a failing external call throws: an object with a message, possibly empty
Thrown == { [message |-> Str("boom")], [message |-> EMPTY] }

\* an optional value (undefined / null, or a value): << >> or <<v>>
NONE == << >>
Some(v) == <<v>>
Coalesce(opt, dflt) == IF opt = NONE THEN dflt ELSE opt[1]        \* opt ?? dflt

\* ------------------------------------------------------------ getOpenAI
\* TRUE for a client, FALSE for null
getOpenAI(e) == Truthy(e["OPENAI_API_KEY"])

\* ------------------------------------------------------- readStyleFiles
StartsWithAt(s, i, pat) ==
  /\ i + Len(pat) - 1 <= Len(s)
  /\ ToLowerCase(SubSeq(s, i, i + Len(pat) - 1)) = pat
FirstIndexFrom(s, i, pat) ==                    \* 0 when pat does not occur at or after i
  LET hits == { j \in i..Len(s) : StartsWithAt(s, j, pat) }
  IN IF hits = {} THEN 0 ELSE CHOOSE j \in hits : \A h \in hits : j <= h

RECURSIVE ReplaceBlocks(_, _, _, _)
ReplaceBlocks(s, i, open, close) ==             \* /<open[\s\S]*?close/gi -> " "
  IF i > Len(s) THEN EMPTY
  ELSE LET j == IF StartsWithAt(s, i, open)
                THEN FirstIndexFrom(s, i + Len(open), close) ELSE 0
       IN IF j > 0 THEN <<" ">> \o ReplaceBlocks(s, j + Len(close), open, close)
          ELSE <<s[i]>> \o ReplaceBlocks(s, i + 1, open, close)

RECURSIVE ReplaceTags(_, _)
ReplaceTags(s, i) ==                            \* /<[^>]+>/g -> " "
  IF i > Len(s) THEN EMPTY
  ELSE LET j == IF s[i] = "<" THEN FirstIndexFrom(s, i + 1, <<">">>) ELSE 0
       IN IF j >= i + 2 THEN <<" ">> \o ReplaceTags(s, j + 1)
          ELSE <<s[i]>> \o ReplaceTags(s, i + 1)

RECURSIVE CollapseWhitespace(_, _)
CollapseWhitespace(s, i) ==                     \* /\s+/g -> " "
  IF i > Len(s) THEN EMPTY
  ELSE IF s[i] \in WS
       THEN IF i > 1 /\ s[i - 1] \in WS THEN CollapseWhitespace(s, i + 1)
            ELSE <<" ">> \o CollapseWhitespace(s, i + 1)
       ELSE <<s[i]>> \o CollapseWhitespace(s, i + 1)

Trim(s) ==
  LET ink == { j \in 1..Len(s) : s[j] \notin WS }
  IN IF ink = {} THEN EMPTY
     ELSE SubSeq(s, CHOOSE a \in ink : \A b \in ink : a <= b,
                    CHOOSE a \in ink : \A b \in ink : a >= b)

SCRIPT_OPEN == <<"<", "s", "c", "r", "i", "p", "t">>
SCRIPT_CLOSE == <<"<", "/", "s", "c", "r", "i", "p", "t", ">">>
STYLE_OPEN == <<"<", "s", "t", "y", "l", "e">>
STYLE_CLOSE == <<"<", "/", "s", "t", "y", "l", "e", ">">>
\* mutant: the script blocks are left to the tag pass
StripHtmlKeepScript(s) ==
  LET b == ReplaceBlocks(s, 1, STYLE_OPEN, STYLE_CLOSE)
      c == ReplaceTags(b, 1)
  IN Trim(CollapseWhitespace(c, 1))
StripHtml(s) ==
  LET a == ReplaceBlocks(s, 1, SCRIPT_OPEN, SCRIPT_CLOSE)
      b == ReplaceBlocks(a, 1, STYLE_OPEN, STYLE_CLOSE)
      c == ReplaceTags(b, 1)
  IN Trim(CollapseWhitespace(c, 1))

IsDocx(f) == EndsWith(ToLowerCase(f.name), DOCX)
DocxIndices(files) == { j \in 1..Len(files) : IsDocx(files[j]) }

\* mutant: the extension is compared as written
StyleChunkCaseSensitive(f, extracted) ==
  IF EndsWith(f.name, DOCX)
    THEN IF extracted /\ Truthy(f.content) THEN <<f.content>> ELSE << >>
  ELSE IF EndsWith(f.name, TXT) \/ EndsWith(f.name, MD) THEN <<f.content>>
  ELSE IF EndsWith(f.name, HTML) \/ EndsWith(f.name, HTM) THEN <<StripHtml(f.content)>>
  ELSE << >>
\* what one file pushes onto chunks (nothing, or one string); extracted is
\* whether mammoth.extractRawText succeeds on it, its value then being the text
StyleChunk(f, extracted) ==
  LET name == ToLowerCase(f.name)
  IN IF EndsWith(name, DOCX)
       THEN IF extracted /\ Truthy(f.content) THEN <<f.content>> ELSE << >>
     ELSE IF EndsWith(name, TXT) \/ EndsWith(name, MD) THEN <<f.content>>
     ELSE IF EndsWith(name, HTML) \/ EndsWith(name, HTM) THEN <<StripHtml(f.content)>>
     ELSE << >>

RECURSIVE StyleChunks(_, _, _)
StyleChunks(files, failing, j) ==
  IF j > Len(files) THEN << >>
  ELSE StyleChunk(files[j], j \notin failing) \o StyleChunks(files, failing, j + 1)

\* failing: the indices of the files whose rich-document extraction throws
readStyleFiles(files, failing) == Join(StyleChunks(files, failing, 1), SEP)

\* --------------------------------------------------------- readFromS3Key
S3Configured(e) ==
  /\ Truthy(e["AWS_REGION"]) /\ Truthy(e["AWS_S3_BUCKET"])
  /\ Truthy(e["AWS_ACCESS_KEY_ID"]) /\ Truthy(e["AWS_SECRET_ACCESS_KEY"])

\* ------------------------------------------------- buildStyleGuidelines
\* mutant: only the empty corpus is too short
GuidelineCallNeededAnyLength(client, corpus) == corpus # EMPTY /\ client
\* TRUE when the function goes on to the chat-completion request
GuidelineCallNeeded(client, corpus) ==
  /\ ~(corpus = EMPTY \/ Length(corpus) < MinGuidelineCorpus)
  /\ client
GuidelineContents == { NONE, Some(Str("guide")) }      \* choices[0]?.message?.content

\* --------------------------------------------------------- transcribeAll
\* mutant: the join without .filter(Boolean)
TranscribeJoinUnfiltered(parts) == Join(parts, SEP)
TranscribeJoin(parts) == Join(FilterBoolean(parts), SEP)  \* pieces.filter(Boolean).join("\n\n")
PrimaryText(f) == <<"P">> \o f.name                     \* what gpt-4o-transcribe hears
FallbackText(f) == <<"W">> \o f.name                    \* what whisper-1 hears
\* key.split("/").pop() || "audio.mp3"
FakeFileName(key) ==
  OrElse(IF key[Len(key)] = "" THEN EMPTY ELSE Str(key[Len(key)]), DEFAULT_AUDIO_NAME)
FakeFile(key) == [name |-> FakeFileName(key), type |-> Str("audio/mpeg")]

\* ------------------------------------------------------------------ state
VARIABLES
  env,                    \* process.env
  req,                    \* the request being served
  pc,                     \* where POST is
  audioFiles, styleFiles, s3AudioKeys, openai,      \* POST's locals
  transcriptFromUploads, styleCorpus, styleGuidelines,
  k,                      \* index of the storage key the for-of loop is at
  caller,                 \* which call of transcribeAll is running: "uploads" or "s3"
  tFiles, i, pieces,      \* transcribeAll's argument, loop index and pieces
  response,               \* the Response returned, NONE before
  log,                    \* history: the calls made, in order
  sPc, sArgs, sContent, sResult,  \* a direct call of summarize
  signPc, signBody, signClock, signRandom,    \* /api/upload/sign: POST's position and inputs
  signCommand, signResponse,                  \* the signing requested, the Response returned
  uPc, uArgs, uResult,                        \* a direct call of one function
  cPage,                                      \* the page open in the browser
  cFiles, cStyleFiles, cS3Keys, cStatus,      \* the page's state (useState)
  cTranscript, cSummary, cMinutes,
  cSelected,                                  \* the files of the last drop or selection that held any
  cUploads,                                   \* the uploadToS3 calls, in the order started
  cInflight                                   \* the /api/minutes requests not yet settled

postVars == <<req, pc, audioFiles, styleFiles, s3AudioKeys, openai, transcriptFromUploads,
              styleCorpus, styleGuidelines, k, caller, tFiles, i, pieces, response, log>>
sumVars == <<sPc, sArgs, sContent, sResult>>
signVars == <<signPc, signBody, signClock, signRandom, signCommand, signResponse>>
unitVars == <<uPc, uArgs, uResult>>
clientVars == <<cPage, cFiles, cStyleFiles, cS3Keys, cStatus, cTranscript, cSummary, cMinutes,
                cSelected, cUploads, cInflight>>
otherVars == <<signVars, unitVars, clientVars>>
vars == <<env, postVars, sumVars, otherVars>>

Event(ev, file, ok, text) == [ev |-> ev, file |-> file, ok |-> ok, text |-> text]

PostIdle ==
  /\ audioFiles = << >> /\ styleFiles = << >> /\ s3AudioKeys = << >>
  /\ openai = FALSE
  /\ transcriptFromUploads = EMPTY /\ styleCorpus = EMPTY /\ styleGuidelines = EMPTY
  /\ k = 1 /\ caller = "uploads" /\ tFiles = << >> /\ i = 1 /\ pieces = << >>
  /\ response = NONE /\ log = << >>
SumIdle ==
  /\ sPc = "idle" /\ sArgs = << >> /\ sContent = NONE /\ sResult = NONE
SignIdle ==
  /\ signPc = "idle" /\ signBody = NONE /\ signClock = EMPTY /\ signRandom = EMPTY
  /\ signCommand = NONE /\ signResponse = NONE
UnitIdle == uPc = "idle" /\ uArgs = << >> /\ uResult = NONE
ClientIdle ==
  /\ cPage = "none"
  /\ cFiles = << >> /\ cStyleFiles = << >> /\ cS3Keys = << >>
  /\ cStatus = "idle"
  /\ cTranscript = EMPTY /\ cSummary = EMPTY /\ cMinutes = EMPTY
  /\ cSelected = << >> /\ cUploads = << >> /\ cInflight = << >>

OtherIdle == SignIdle /\ UnitIdle /\ ClientIdle

Init ==
  /\ env \in Envs
  /\ req \in Requests
  /\ pc = "start"
  /\ PostIdle
  /\ SumIdle
  /\ OtherIdle

\* ---------------------------------------------------------------- POST
\* mutant: the catch without its "Unknown error" default
ErrorBodyMessageOnly(e) == [error |-> e.message]
\* catch (e): 500 with e?.message || "Unknown error"
ErrorBody(e) == [error |-> OrElse(e.message, UNKNOWN_ERROR)]
Catch(e) ==
  /\ response' = Some([status |-> 500, body |-> ErrorBody(e)])
  /\ pc' = "done"
\* the step ev throws e, which POST catches; the log keeps e's message
Throw(ev, file, e) ==
  /\ Catch(e)
  /\ log' = Append(log, Event(ev, file, FALSE, e.message))

\* lines 173-177 and 183: a multipart body
IngestMultipart ==
  /\ pc = "start"
  /\ Includes(req.contentType, "multipart/form-data")
  /\ audioFiles' = req.audio
  /\ styleFiles' = req.style
  /\ s3AudioKeys' = req.keys
  /\ openai' = getOpenAI(env)
  /\ pc' = "transcribe"
  /\ caller' = "uploads"
  /\ tFiles' = req.audio
  /\ UNCHANGED <<env, req, transcriptFromUploads, styleCorpus, styleGuidelines, k, i,
                 pieces, response, log, sumVars, otherVars>>

\* lines 178-180 and 183: a JSON body
IngestJson ==
  /\ pc = "start"
  /\ ~Includes(req.contentType, "multipart/form-data")
  /\ Includes(req.contentType, "application/json")
  /\ s3AudioKeys' = req.keys
  /\ openai' = getOpenAI(env)
  /\ pc' = "transcribe"
  /\ caller' = "uploads"
  /\ tFiles' = audioFiles
  /\ UNCHANGED <<env, req, audioFiles, styleFiles, transcriptFromUploads, styleCorpus,
                 styleGuidelines, k, i, pieces, response, log, sumVars, otherVars>>

\* line 183 alone: neither content type
IngestOther ==
  /\ pc = "start"
  /\ ~Includes(req.contentType, "multipart/form-data")
  /\ ~Includes(req.contentType, "application/json")
  /\ openai' = getOpenAI(env)
  /\ pc' = "transcribe"
  /\ caller' = "uploads"
  /\ tFiles' = audioFiles
  /\ UNCHANGED <<env, req, audioFiles, styleFiles, s3AudioKeys, transcriptFromUploads,
                 styleCorpus, styleGuidelines, k, i, pieces, response, log, sumVars, otherVars>>

\* req.formData() or req.json() rejects: the body does not parse
IngestThrows ==
  /\ pc = "start"
  /\ Includes(req.contentType, "multipart/form-data") \/ Includes(req.contentType, "application/json")
  /\ \E e \in Thrown : Throw("body", EMPTY, e)
  /\ UNCHANGED <<env, req, audioFiles, styleFiles, s3AudioKeys, openai,
                 transcriptFromUploads, styleCorpus, styleGuidelines, k, caller, tFiles, i,
                 pieces, sumVars, otherVars>>

\* transcribeAll returns value to the call that is running:
\* line 185 (let transcriptFromUploads = ...) or line 192 (+= "\n\n" + ...)
TranscribeReturn(value) ==
  /\ transcriptFromUploads' =
       IF caller = "uploads" THEN value ELSE transcriptFromUploads \o SEP \o value
  /\ k' = IF caller = "uploads" THEN 1 ELSE k + 1
  /\ pc' = "s3"

\* mutant: the credential is looked at before the list
transcribeAllEarlyMockFirst(client, files) ==
  IF ~client THEN Some(MOCK_TRANSCRIPT_ALL)
  ELSE IF files = << >> THEN Some(EMPTY)
  ELSE NONE
\* lines 79-83: the value of an early return, NONE when the loop is entered
transcribeAllEarly(client, files) ==
  IF files = << >> THEN Some(EMPTY)
  ELSE IF ~client THEN Some(MOCK_TRANSCRIPT_ALL)
  ELSE NONE

\* lines 79-84: the two early returns, or the start of the loop
TranscribeAllEnter ==
  /\ pc = "transcribe"
  /\ IF transcribeAllEarly(openai, tFiles) # NONE
       THEN TranscribeReturn(transcribeAllEarly(openai, tFiles)[1]) /\ UNCHANGED <<i, pieces>>
     ELSE /\ pieces' = << >> /\ i' = 1 /\ pc' = "t_primary"
          /\ UNCHANGED <<transcriptFromUploads, k>>
  /\ log' = Append(log, Event("transcribeAll", EMPTY, openai, EMPTY))
  /\ UNCHANGED <<env, req, audioFiles, styleFiles, s3AudioKeys, openai, styleCorpus,
                 styleGuidelines, caller, tFiles, response, sumVars, otherVars>>

\* after a push at lines 93, 101 or 103: the next file, or line 107
TranscribeAdvance(newPieces) ==
  /\ pieces' = newPieces
  /\ IF i < Len(tFiles)
       THEN /\ i' = i + 1 /\ pc' = "t_primary"
            /\ UNCHANGED <<transcriptFromUploads, k>>
       ELSE /\ i' = i
            /\ TranscribeReturn(TranscribeJoin(newPieces))

SttOutcomes == {"fail", "empty", "text"}

\* mutant: the failed request is sent again with the same model
OnPrimaryFailureRetry == "t_primary"
\* catch (e) at line 94: one whisper-1 attempt
OnPrimaryFailure == "t_fallback"

\* lines 86-93: the gpt-4o-transcribe request for file i
TranscribePrimary ==
  /\ pc = "t_primary"
  /\ \E o \in SttOutcomes :
       LET text == IF o = "text" THEN PrimaryText(tFiles[i]) ELSE EMPTY
       IN /\ log' = Append(log, Event("stt_primary", tFiles[i].name, o # "fail", text))
          /\ IF o = "fail"
               THEN pc' = OnPrimaryFailure /\ UNCHANGED <<pieces, i, transcriptFromUploads, k>>
               ELSE TranscribeAdvance(Append(pieces, text))
  /\ UNCHANGED <<env, req, audioFiles, styleFiles, s3AudioKeys, openai, styleCorpus,
                 styleGuidelines, caller, tFiles, response, sumVars, otherVars>>

\* lines 94-104: the whisper-1 request for file i, "" when it fails too
TranscribeFallback ==
  /\ pc = "t_fallback"
  /\ \E o \in SttOutcomes :
       LET text == IF o = "text" THEN FallbackText(tFiles[i]) ELSE EMPTY
       IN /\ log' = Append(log, Event("stt_fallback", tFiles[i].name, o # "fail", text))
          /\ TranscribeAdvance(Append(pieces, text))
  /\ UNCHANGED <<env, req, audioFiles, styleFiles, s3AudioKeys, openai, styleCorpus,
                 styleGuidelines, caller, tFiles, response, sumVars, otherVars>>

\* mutant: buildStyleGuidelines moved above readStyleFiles
NextPhaseGuidelinesFirst(p) ==
  CASE p = "s3" -> "guideline"
    [] p = "guideline" -> "style"
    [] p = "style" -> "summarize"
\* the order of lines 187-199: the storage-key loop, readStyleFiles,
\* buildStyleGuidelines, summarize
NextPhase(p) ==
  CASE p = "s3" -> "style"
    [] p = "style" -> "guideline"
    [] p = "guideline" -> "summarize"

\* lines 187-192: one turn of the storage-key loop, or its end
S3LoopEnd ==
  /\ pc = "s3"
  /\ k > Len(s3AudioKeys)
  /\ pc' = NextPhase("s3")
  /\ UNCHANGED <<env, req, audioFiles, styleFiles, s3AudioKeys, openai,
                 transcriptFromUploads, styleCorpus, styleGuidelines, k, caller, tFiles, i,
                 pieces, response, log, sumVars, otherVars>>

\* readFromS3Key returns null (line 52): continue
S3KeyUnconfigured ==
  /\ pc = "s3"
  /\ k <= Len(s3AudioKeys)
  /\ ~S3Configured(env)
  /\ k' = k + 1
  /\ log' = Append(log, Event("readFromS3Key", s3AudioKeys[k], FALSE, EMPTY))
  /\ UNCHANGED <<env, req, pc, audioFiles, styleFiles, s3AudioKeys, openai,
                 transcriptFromUploads, styleCorpus, styleGuidelines, caller, tFiles, i,
                 pieces, response, sumVars, otherVars>>

\* readFromS3Key returns the object (lines 53-58): transcribeAll on it (line 192)
S3KeyRead ==
  /\ pc = "s3"
  /\ k <= Len(s3AudioKeys)
  /\ S3Configured(env)
  /\ tFiles' = << FakeFile(s3AudioKeys[k]) >>
  /\ caller' = "s3"
  /\ pc' = "transcribe"
  /\ log' = Append(log, Event("getObject", s3AudioKeys[k], TRUE, EMPTY))
  /\ UNCHANGED <<env, req, audioFiles, styleFiles, s3AudioKeys, openai,
                 transcriptFromUploads, styleCorpus, styleGuidelines, k, i, pieces,
                 response, sumVars, otherVars>>

\* s3.send or the body stream rejects (lines 54-57)
S3KeyThrows ==
  /\ pc = "s3"
  /\ k <= Len(s3AudioKeys)
  /\ S3Configured(env)
  /\ \E e \in Thrown : Throw("getObject", s3AudioKeys[k], e)
  /\ UNCHANGED <<env, req, audioFiles, styleFiles, s3AudioKeys, openai,
                 transcriptFromUploads, styleCorpus, styleGuidelines, k, caller, tFiles, i,
                 pieces, sumVars, otherVars>>

\* line 196
ReadStyleFiles ==
  /\ pc = "style"
  /\ \E failing \in SUBSET DocxIndices(styleFiles) :
       styleCorpus' = readStyleFiles(styleFiles, failing)
  /\ pc' = NextPhase("style")
  /\ log' = Append(log, Event("readStyleFiles", EMPTY, TRUE, EMPTY))
  /\ UNCHANGED <<env, req, audioFiles, styleFiles, s3AudioKeys, openai,
                 transcriptFromUploads, styleGuidelines, k, caller, tFiles, i, pieces,
                 response, sumVars, otherVars>>

\* line 198, buildStyleGuidelines returning "" at line 62 or 64
GuidelinesSkipped ==
  /\ pc = "guideline"
  /\ ~GuidelineCallNeeded(openai, styleCorpus)
  /\ styleGuidelines' = EMPTY
  /\ pc' = NextPhase("guideline")
  /\ log' = Append(log, Event("buildStyleGuidelines", EMPTY, FALSE, EMPTY))
  /\ UNCHANGED <<env, req, audioFiles, styleFiles, s3AudioKeys, openai,
                 transcriptFromUploads, styleCorpus, k, caller, tFiles, i, pieces,
                 response, sumVars, otherVars>>

\* line 198, buildStyleGuidelines making the request of lines 66-75
GuidelinesRequested ==
  /\ pc = "guideline"
  /\ GuidelineCallNeeded(openai, styleCorpus)
  /\ \E c \in GuidelineContents :
       /\ styleGuidelines' = Coalesce(c, EMPTY)
       /\ log' = Append(log, Event("guideline_request", EMPTY, TRUE, Coalesce(c, EMPTY)))
  /\ pc' = NextPhase("guideline")
  /\ UNCHANGED <<env, req, audioFiles, styleFiles, s3AudioKeys, openai,
                 transcriptFromUploads, styleCorpus, k, caller, tFiles, i, pieces,
                 response, sumVars, otherVars>>

\* the request of lines 67-74 rejects
GuidelinesThrows ==
  /\ pc = "guideline"
  /\ GuidelineCallNeeded(openai, styleCorpus)
  /\ \E e \in Thrown : Throw("guideline_request", EMPTY, e)
  /\ UNCHANGED <<env, req, audioFiles, styleFiles, s3AudioKeys, openai,
                 transcriptFromUploads, styleCorpus, styleGuidelines, k, caller, tFiles,
                 i, pieces, sumVars, otherVars>>

\* line 199: the argument transcript names no binding of POST or of the module,
\* so evaluating it throws a ReferenceError before summarize is entered;
\* lines 201-209 are never reached
SummarizeArguments ==
  /\ pc = "summarize"
  /\ Throw("summarize_arguments", EMPTY, [message |-> TRANSCRIPT_NOT_DEFINED])
  /\ UNCHANGED <<env, req, audioFiles, styleFiles, s3AudioKeys, openai,
                 transcriptFromUploads, styleCorpus, styleGuidelines, k, caller, tFiles,
                 i, pieces, sumVars, otherVars>>

Next ==
  \/ IngestMultipart \/ IngestJson \/ IngestOther \/ IngestThrows
  \/ TranscribeAllEnter \/ TranscribePrimary \/ TranscribeFallback
  \/ S3LoopEnd \/ S3KeyUnconfigured \/ S3KeyRead \/ S3KeyThrows
  \/ ReadStyleFiles
  \/ GuidelinesSkipped \/ GuidelinesRequested \/ GuidelinesThrows
  \/ SummarizeArguments

Spec == Init /\ [][Next]_vars

\* ------------------------------------------------------------ summarize
\* The chat completion's message content is JSON text, spelled as its tokens:
\* punctuation, the word null, and string literals.
Punct(c) == [t |-> "punct", v |-> c]
JNull == [t |-> "null", v |-> "null"]
JStr(x) == [t |-> "string", v |-> x]
\* JSON.parse on a flat object or on null; ok is FALSE for a SyntaxError.
\* value is NONE for null, else <<object>>, the object a function from its
\* keys to optional strings (NONE for a null member).
RECURSIVE ParseMembers(_)
ParseMembers(toks) ==
  IF /\ Len(toks) >= 3
     /\ toks[1].t = "string" /\ toks[2] = Punct(":") /\ toks[3].t \in {"string", "null"}
  THEN LET key == toks[1].v
           val == IF toks[3].t = "null" THEN NONE ELSE Some(Str(toks[3].v))
           rest == IF Len(toks) = 3 THEN [ok |-> TRUE, obj |-> << >>]
                   ELSE IF toks[4] = Punct(",") /\ Len(toks) > 4
                        THEN ParseMembers(SubSeq(toks, 5, Len(toks)))
                        ELSE [ok |-> FALSE, obj |-> << >>]
       IN IF rest.ok
            THEN [ok |-> TRUE,
                  obj |-> [n \in {key} \cup DOMAIN rest.obj |->
                             IF n \in DOMAIN rest.obj THEN rest.obj[n] ELSE val]]
            ELSE rest
  ELSE [ok |-> FALSE, obj |-> << >>]

JSONParse(toks) ==
  IF toks = <<JNull>> THEN [ok |-> TRUE, value |-> NONE]
  ELSE IF Len(toks) >= 2 /\ toks[1] = Punct("{") /\ toks[Len(toks)] = Punct("}")
    THEN IF Len(toks) = 2 THEN [ok |-> TRUE, value |-> Some(<< >>)]
         ELSE LET m == ParseMembers(SubSeq(toks, 2, Len(toks) - 1))
              IN IF m.ok THEN [ok |-> TRUE, value |-> Some(m.obj)]
                 ELSE [ok |-> FALSE, value |-> NONE]
  ELSE [ok |-> FALSE, value |-> NONE]

EMPTY_OBJECT_TEXT == <<Punct("{"), Punct("}")>>              \* "{}"
Member(key, tok) == <<JStr(key), Punct(":"), tok>>
\* what resp.choices[0]?.message?.content can be
SummaryContents ==
  { NONE,
    Some(<<Punct("{")>> \o Member("summary", JStr("S")) \o <<Punct(",")>>
           \o Member("minutes", JStr("M")) \o <<Punct("}")>>),
    Some(<<Punct("{")>> \o Member("minutes", JStr("M")) \o <<Punct("}")>>),
    Some(<<Punct("{")>> \o Member("summary", JNull) \o <<Punct(",")>>
           \o Member("minutes", JStr("M")) \o <<Punct("}")>>),
    Some(<<JNull>>),
    Some(<<Punct("{")>> \o Member("summary", JStr("S")) \o <<Punct(",")>>),
    Some(<< >>) }

\* lines 111-117
summarizeMock(transcript) ==
  [transcript |-> OrElse(transcript, MOCK_TRANSCRIPT), summary |-> MOCK_SUMMARY]

\* lines 157-163, content being resp.choices[0]?.message?.content
summarizeParse(transcript, content) ==
  LET parsed == JSONParse(Coalesce(content, EMPTY_OBJECT_TEXT))
  IN IF parsed.ok /\ parsed.value # NONE        \* reading .summary of null throws too
       THEN LET obj == parsed.value[1]
                got == IF "summary" \in DOMAIN obj THEN obj["summary"] ELSE NONE
            IN [transcript |-> transcript, summary |-> Coalesce(got, EMPTY)]
       ELSE [transcript |-> transcript, summary |-> SUMMARY_PARSE_FAILED]

SummarizeTranscripts == { EMPTY, <<"h", "i">>, MOCK_TRANSCRIPT_ALL, PrimaryText(AudioFile(1)) }
SummarizeGuidelines == { EMPTY, Str("guide") }

InitSummarize ==
  /\ env \in { e \in Envs : S3Configured(e) }
  /\ req = [contentType |-> CT_OTHER, audio |-> << >>, style |-> << >>,
            keys |-> << >>, transcript |-> << >>]
  /\ pc = "off"
  /\ PostIdle
  /\ OtherIdle
  /\ sPc = "called"
  /\ sArgs \in { [openai |-> getOpenAI(env), transcript |-> t, styleGuidelines |-> g] :
                   t \in SummarizeTranscripts, g \in SummarizeGuidelines }
  /\ sContent = NONE
  /\ sResult = NONE

\* lines 111-117: no client
SummarizeMock ==
  /\ sPc = "called"
  /\ ~sArgs.openai
  /\ sResult' = Some(summarizeMock(sArgs.transcript))
  /\ sPc' = "returned"
  /\ UNCHANGED <<env, postVars, otherVars, sArgs, sContent>>

\* lines 119-157: the chat-completion request answers
SummarizeResponds ==
  /\ sPc = "called"
  /\ sArgs.openai
  /\ \E c \in SummaryContents : sContent' = c
  /\ sPc' = "responded"
  /\ UNCHANGED <<env, postVars, otherVars, sArgs, sResult>>

\* lines 127-155: the request rejects, and summarize with it
SummarizeThrows ==
  /\ sPc = "called"
  /\ sArgs.openai
  /\ \E e \in Thrown : sResult' = Some(e)
  /\ sPc' = "threw"
  /\ UNCHANGED <<env, postVars, otherVars, sArgs, sContent>>

\* lines 157-163
SummarizeParses ==
  /\ sPc = "responded"
  /\ sResult' = Some(summarizeParse(sArgs.transcript, sContent))
  /\ sPc' = "returned"
  /\ UNCHANGED <<env, postVars, otherVars, sArgs, sContent>>

NextSummarize == SummarizeMock \/ SummarizeResponds \/ SummarizeThrows \/ SummarizeParses

SpecSummarize == InitSummarize /\ [][NextSummarize]_vars

\* ------------------------------------------- /api/upload/sign (route.ts)
\* the storage settings in every combination (the AI key plays no part)
SignEnvs == { e \in [EnvNames -> EnvValue] : e["OPENAI_API_KEY"] = EMPTY }
SignFilenames ==
  { EMPTY, <<"a">>, <<"a", ".">>, <<"a", ".", "m", "p", "3">>,
    <<"a", ".", "b", ".", "W", "A", "V">> }
SignContentTypes == { EMPTY, Str("audio/mpeg") }
\* a JSON object with any of the two properties
SignObjects ==
  { [n \in d |-> IF n = "filename" THEN f ELSE c] :
      d \in SUBSET {"filename", "contentType"}, f \in SignFilenames, c \in SignContentTypes }
\* the request body: text that is not JSON, the JSON null, or a JSON object
SignBodies ==
  { [kind |-> "invalid", json |-> << >>], [kind |-> "null", json |-> << >>] }
  \cup { [kind |-> "object", json |-> o] : o \in SignObjects }
\* Date.now() in decimal, and Math.random().toString(36)
SignClocks == { Str("1730000000000"), Str("1730000000001") }
SignRandoms == { <<"0">>, <<"0", ".", "i">>, <<"0", ".", "4", "f", "z">> }
Field(o, n) == IF n \in DOMAIN o THEN o[n] ELSE EMPTY      \* undefined is falsy
Slice(s, from) == SubSeq(s, from + 1, Len(s))              \* s.slice(from)
S3_NOT_CONFIGURED == Str("S3 is not configured")
FILENAME_REQUIRED == Str("filename required")
OCTET_STREAM == Str("application/octet-stream")
SignExpiresIn == 60 * 10

\* mutant: the client is built without looking at the secret
getS3NoSecret(e) ==
  /\ Truthy(e["AWS_REGION"]) /\ Truthy(e["AWS_S3_BUCKET"]) /\ Truthy(e["AWS_ACCESS_KEY_ID"])
\* TRUE for a client, FALSE for null
getS3(e) ==
  /\ Truthy(e["AWS_REGION"]) /\ Truthy(e["AWS_S3_BUCKET"])
  /\ Truthy(e["AWS_ACCESS_KEY_ID"]) /\ Truthy(e["AWS_SECRET_ACCESS_KEY"])

\* filename.split(".").pop(): what follows the last dot, all of it without one
LastSegment(name) ==
  LET dots == { j \in 1..Len(name) : name[j] = "." }
  IN IF dots = {} THEN name
     ELSE SubSeq(name, (CHOOSE j \in dots : \A h \in dots : h <= j) + 1, Len(name))
SignExt(filename) == OrElse(LastSegment(filename), <<"b", "i", "n">>)
\* `uploads/${Date.now()}_${Math.random().toString(36).slice(2)}.${ext}`
SignKey(now, random, ext) ==
  Str("uploads/") \o now \o Str("_") \o Slice(random, 2) \o Str(".") \o ext
\* getSignedUrl: a URL for the command that carries its expiry
getSignedUrl(cmd, expiresIn) ==
  Str("https://") \o cmd.Bucket \o Str("/") \o cmd.Key
    \o Str("?X-Amz-Expires=" \o ToString(expiresIn))

InitSign ==
  /\ env \in SignEnvs
  /\ req = [contentType |-> CT_OTHER, audio |-> << >>, style |-> << >>,
            keys |-> << >>, transcript |-> << >>]
  /\ pc = "off"
  /\ PostIdle
  /\ SumIdle
  /\ signPc = "start"
  /\ signBody \in { Some(b) : b \in SignBodies }
  /\ signClock = EMPTY /\ signRandom = EMPTY
  /\ signCommand = NONE /\ signResponse = NONE
  /\ UnitIdle
  /\ ClientIdle

\* if (!s3): 400
SignUnconfigured ==
  /\ signPc = "start"
  /\ ~getS3(env)
  /\ signResponse' = Some([status |-> 400, body |-> [error |-> S3_NOT_CONFIGURED]])
  /\ signPc' = "done"
  /\ UNCHANGED <<env, postVars, sumVars, unitVars, clientVars, signBody, signClock, signRandom, signCommand>>

\* await req.json() rejects, or destructuring null throws: nothing catches it
SignBodyThrows ==
  /\ signPc = "start"
  /\ getS3(env)
  /\ signBody[1].kind # "object"
  /\ signPc' = "threw"
  /\ UNCHANGED <<env, postVars, sumVars, unitVars, clientVars, signBody, signClock, signRandom, signCommand,
                 signResponse>>

\* if (!filename): 400
SignFilenameRequired ==
  /\ signPc = "start"
  /\ getS3(env)
  /\ signBody[1].kind = "object"
  /\ ~Truthy(Field(signBody[1].json, "filename"))
  /\ signResponse' = Some([status |-> 400, body |-> [error |-> FILENAME_REQUIRED]])
  /\ signPc' = "done"
  /\ UNCHANGED <<env, postVars, sumVars, unitVars, clientVars, signBody, signClock, signRandom, signCommand>>

\* the key, the PutObjectCommand, the signed URL: 200 {url, key}
SignUrl ==
  /\ signPc = "start"
  /\ getS3(env)
  /\ signBody[1].kind = "object"
  /\ Truthy(Field(signBody[1].json, "filename"))
  /\ \E now \in SignClocks, random \in SignRandoms :
       LET key == SignKey(now, random, SignExt(Field(signBody[1].json, "filename")))
           cmd == [Bucket |-> env["AWS_S3_BUCKET"], Key |-> key,
                   ContentType |-> OrElse(Field(signBody[1].json, "contentType"),
                                          OCTET_STREAM)]
       IN /\ signClock' = now
          /\ signRandom' = random
          /\ signCommand' = Some([command |-> cmd, expiresIn |-> SignExpiresIn])
          /\ signResponse' =
               Some([status |-> 200,
                     body |-> [url |-> getSignedUrl(cmd, SignExpiresIn), key |-> key]])
  /\ signPc' = "done"
  /\ UNCHANGED <<env, postVars, sumVars, unitVars, clientVars, signBody>>

NextSign == SignUnconfigured \/ SignBodyThrows \/ SignFilenameRequired \/ SignUrl

SpecSign == InitSign /\ [][NextSign]_vars

\* ------------------------------------------- readStyleFiles, called alone
MaxHtmlPieces == 4      \* pieces of markup in one .html style file
MaxStyle == 3           \* style files in one call
\* what a markup file is made of: text, an inline tag, script and style tags
HtmlPieces ==
  { <<"q">>, <<"1">>, <<"<", "b", ">">>,
    <<"<", "s", "c", "r", "i", "p", "t", ">">>,
    <<"<", "S", "C", "R", "I", "P", "T", " ", "a", ">">>,
    <<"<", "/", "s", "c", "r", "i", "p", "t", ">">>,
    <<"<", "s", "t", "y", "l", "e", ">">>,
    <<"<", "/", "s", "t", "y", "l", "e", ">">> }
RECURSIVE PieceLists(_)
PieceLists(n) ==
  IF n = 0 THEN { << >> }
  ELSE LET shorter == PieceLists(n - 1)
       IN shorter \cup { Append(ps, p) : ps \in shorter, p \in HtmlPieces }
RECURSIVE Flatten(_)
Flatten(ps) == IF ps = << >> THEN EMPTY ELSE ps[1] \o Flatten(Tail(ps))
\* the files of a mixed call: text in either case of the extension, a rich
\* document with and without text, markup, an unknown extension, no extension,
\* an empty text file
StylePool ==
  { StyleFile(<<"A", ".", "T", "X", "T">>, <<"t">>),
    StyleFile(<<"b">> \o MD, <<"m">>),
    StyleFile(<<"c">> \o DOCX, <<"d">>),
    StyleFile(<<"e", ".", "D", "o", "c", "x">>, EMPTY),
    StyleFile(<<"F", ".", "H", "T", "M">>, <<"<", "b", ">", "h", "<", "/", "b", ">">>),
    StyleFile(<<"g", ".", "p", "d", "f">>, <<"p">>),
    StyleFile(<<"t", "x", "t">>, <<"n">>),
    StyleFile(<<"h">> \o TXT, EMPTY) }
RECURSIVE StylePoolLists(_)
StylePoolLists(n) ==
  IF n = 0 THEN { << >> }
  ELSE LET shorter == StylePoolLists(n - 1)
       IN shorter \cup { Append(fs, f) : fs \in shorter, f \in StylePool }
\* one markup file built from pieces, or a list of files from the pool
StyleCalls ==
  { [files |-> << StyleFile(name, Flatten(ps)) >>, pieces |-> ps] :
      name \in { <<"p">> \o HTML }, ps \in PieceLists(MaxHtmlPieces) }
  \cup { [files |-> fs, pieces |-> << >>] : fs \in StylePoolLists(MaxStyle) }

InitStyle ==
  /\ env \in { e \in Envs : S3Configured(e) /\ ~getOpenAI(e) }
  /\ req = [contentType |-> CT_OTHER, audio |-> << >>, style |-> << >>,
            keys |-> << >>, transcript |-> << >>]
  /\ pc = "off"
  /\ PostIdle
  /\ SumIdle
  /\ SignIdle
  /\ ClientIdle
  /\ uPc = "readStyleFiles"
  /\ uArgs \in StyleCalls
  /\ uResult = NONE

\* readStyleFiles(files): failing are the files whose extraction throws
StyleCall ==
  /\ uPc = "readStyleFiles"
  /\ \E failing \in SUBSET DocxIndices(uArgs.files) :
       uResult' = Some([failing |-> failing, value |-> readStyleFiles(uArgs.files, failing)])
  /\ uPc' = "returned"
  /\ UNCHANGED <<env, postVars, sumVars, signVars, clientVars, uArgs>>

NextStyle == StyleCall

SpecStyle == InitStyle /\ [][NextStyle]_vars

\* --------------------------------------- exportHTML (transcript client)
MaxTextPieces == 2      \* pieces of text in a summary or a minutes body
\* what a text is made of: a letter, the five escaped characters, and the tail
\* of an entity (so that "&" then "amp;" is the text "&amp;")
TextPieces ==
  { <<"a">>, <<"&">>, <<"<">>, <<">">>, <<"\"">>, <<"'">>, <<"a", "m", "p", ";">> }
RECURSIVE Texts(_)
Texts(n) ==
  IF n = 0 THEN { EMPTY }
  ELSE LET shorter == Texts(n - 1)
       IN shorter \cup { t \o p : t \in shorter, p \in TextPieces }
UNWRITTEN == Str("UNWRITTEN")                         \* "（未作成）"
RECURSIVE ReplaceAll(_, _, _)
ReplaceAll(s, ch, rep) ==                             \* s.replaceAll(ch, rep)
  IF s = << >> THEN EMPTY
  ELSE (IF s[1] = ch THEN rep ELSE <<s[1]>>) \o ReplaceAll(Tail(s), ch, rep)
AMP == <<"&", "a", "m", "p", ";">>
LT == <<"&", "l", "t", ";">>
GT == <<"&", "g", "t", ";">>
QUOT == <<"&", "q", "u", "o", "t", ";">>
APOS == <<"&", "#", "3", "9", ";">>
\* mutant: the ampersand is replaced last
escapeHtmlAmpLast(str) ==
  ReplaceAll(ReplaceAll(ReplaceAll(ReplaceAll(ReplaceAll(str,
    "<", LT), ">", GT), "\"", QUOT), "'", APOS), "&", AMP)
escapeHtml(str) ==
  ReplaceAll(ReplaceAll(ReplaceAll(ReplaceAll(ReplaceAll(str,
    "&", AMP), "<", LT), ">", GT), "\"", QUOT), "'", APOS)
\* a tag is "<", its name and attributes as one token, ">"
Tag(inside) == <<"<", inside, ">">>
ExportHead ==
  Tag("!doctype html") \o Tag("html lang=ja") \o Tag("meta charset=utf-8")
    \o Tag("title") \o Str("TITLE") \o Tag("/title") \o Tag("body style=...")
    \o Tag("h1") \o Str("H1") \o Tag("/h1")
exportHTML(summary, generatedMinutes) ==
  ExportHead
    \o Tag("h3") \o Str("H3_SUMMARY") \o Tag("/h3")
    \o Tag("p") \o escapeHtml(OrElse(summary, UNWRITTEN)) \o Tag("/p")
    \o Tag("h3") \o Str("H3_BODY") \o Tag("/h3")
    \o Tag("pre style=white-space:pre-wrap")
    \o escapeHtml(OrElse(generatedMinutes, UNWRITTEN)) \o Tag("/pre")
    \o Tag("/body") \o Tag("/html")

InitExport ==
  /\ env \in { e \in Envs : S3Configured(e) /\ ~getOpenAI(e) }
  /\ req = [contentType |-> CT_OTHER, audio |-> << >>, style |-> << >>,
            keys |-> << >>, transcript |-> << >>]
  /\ pc = "off"
  /\ PostIdle
  /\ SumIdle
  /\ SignIdle
  /\ ClientIdle
  /\ uPc = "exportHTML"
  /\ uArgs \in { [summary |-> s, generatedMinutes |-> m] :
                   s \in Texts(MaxTextPieces), m \in Texts(MaxTextPieces) }
  /\ uResult = NONE

\* exportHTML(): the document handed to downloadFile
ExportCall ==
  /\ uPc = "exportHTML"
  /\ uResult' = Some(exportHTML(uArgs.summary, uArgs.generatedMinutes))
  /\ uPc' = "exported"
  /\ UNCHANGED <<env, postVars, sumVars, signVars, clientVars, uArgs>>

NextExport == ExportCall

SpecExport == InitExport /\ [][NextExport]_vars

\* ------------------------- the recommendation hints (audio client)
BYTES_300MB == 300 * 1024 * 1024
\* a file name: undefined, or a string
HintNames ==
  { NONE, Some(EMPTY),
    Some(<<"s", "o", "n", "g", ".", "m", "p", "3">>),
    Some(<<"R", "E", "C", ".", "W", "A", "V">>),
    Some(<<"m", ".", "M", "4", "a">>),
    Some(<<".", "m", "4", "a">>),
    Some(<<"c", "u", "s", "t", "o", "m", ".", "o", "g", "g">>),
    Some(<<"m", "p", "3">>),
    Some(<<"a", ".", "m", "p", "3", ".", "t", "x", "t">>),
    Some(<<"a", ".", "w", "a", "v", " ">>),
    Some(<<"a", "x", "m", "p", "3">>) }
\* a file size: undefined, or a number of bytes
HintSizes ==
  { NONE, Some(0), Some(42), Some(BYTES_300MB - 1), Some(BYTES_300MB),
    Some(BYTES_300MB + 1), Some(BYTES_300MB * 2) }
RecommendedSuffixes ==
  { <<".", "m", "p", "3">>, <<".", "w", "a", "v">>, <<".", "m", "4", "a">> }
\* /(\.mp3|\.wav|\.m4a)$/i.test(name)
TestRecommended(name) == \E suf \in RecommendedSuffixes : EndsWith(ToLowerCase(name), suf)
isRecommendedFormat(name) ==
  IF name = NONE \/ ~Truthy(name[1]) THEN FALSE ELSE TestRecommended(name[1])
IsFinite(n) == n \in Int                              \* Number.isFinite
\* mutant: a file of exactly the recommended size already exceeds it
exceedsRecommendedSizeInclusive(size) ==
  IF size = NONE \/ size[1] = 0 \/ ~IsFinite(size[1]) THEN FALSE
  ELSE size[1] >= BYTES_300MB
exceedsRecommendedSize(size) ==
  IF size = NONE \/ size[1] = 0 \/ ~IsFinite(size[1]) THEN FALSE
  ELSE size[1] > BYTES_300MB

InitHints ==
  /\ env \in { e \in Envs : S3Configured(e) /\ ~getOpenAI(e) }
  /\ req = [contentType |-> CT_OTHER, audio |-> << >>, style |-> << >>,
            keys |-> << >>, transcript |-> << >>]
  /\ pc = "off"
  /\ PostIdle
  /\ SumIdle
  /\ SignIdle
  /\ ClientIdle
  /\ uPc = "hints"
  /\ uArgs \in { [name |-> n, size |-> z] : n \in HintNames, z \in HintSizes }
  /\ uResult = NONE

\* the two checks on one file, as runtimeTests and FileRow make them
HintsCall ==
  /\ uPc = "hints"
  /\ uResult' = Some([okFmt |-> isRecommendedFormat(uArgs.name),
                      big |-> exceedsRecommendedSize(uArgs.size)])
  /\ uPc' = "hinted"
  /\ UNCHANGED <<env, postVars, sumVars, signVars, clientVars, uArgs>>

NextHints == HintsCall

SpecHints == InitHints /\ [][NextHints]_vars

\* ------------------------------- the two pages (audio client, transcript client)
MaxUploads == 3         \* files dropped or selected in one visit, over all drops
MaxDropFiles == 2       \* files in one drop or selection
\* the files a user has: a recommended one, and one that is neither of a
\* recommended format nor within the recommended size
SONG == [name |-> <<"s", "o", "n", "g", ".", "m", "p", "3">>, size |-> 42,
         type |-> Str("audio/mpeg")]
OGG == [name |-> <<"c", "u", "s", "t", "o", "m", ".", "o", "g", "g">>,
        size |-> BYTES_300MB * 2, type |-> EMPTY]
UserFiles == { SONG, OGG }
\* e.dataTransfer.files / e.target.files when not empty: distinct files in some order
Selections ==
  { s \in UNION { [1..n -> UserFiles] : n \in 1..MaxDropFiles } :
      \A a, b \in 1..Len(s) : a # b => s[a] # s[b] }
ClientStyleLists == { << >>, << StyleFile(<<"s">> \o TXT, <<"t">>) >> }
\* the key /api/upload/sign hands out for the u-th upload: each request gets
\* its own timestamp and random part
IssuedKey(u, file) == SignKey(Str(ToString(u)), <<"0", ".", "r">>, SignExt(file.name))
\* what a .txt upload holds
TextContents == { EMPTY, <<" ", " ">>, <<"h", "i">> }
\* the JSON of a 200 body: the route's result, or an object without its fields
Replies ==
  { [transcript |-> Str("T"), summary |-> Str("S"), styleGuidelines |-> EMPTY],
    [n \in {} |-> EMPTY] }
PROCESS_ERROR == Str("PROCESS_ERROR")      \* "処理中にエラーが発生しました。"

\* fileMeta: the labels shown for the listed files
fileMeta(list) ==
  [j \in 1..Len(list) |->
     [name |-> list[j].name,
      recommendedFormat |-> isRecommendedFormat(Some(list[j].name)),
      overRecommended |-> exceedsRecommendedSize(Some(list[j].size))]]

\* mutant: only the files of a recommended format are listed
onFilesRecommendedOnly(selected) ==
  SelectSeq(selected, LAMBDA f : isRecommendedFormat(Some(f.name)))
\* onFiles: setFiles(selected)
onFiles(selected) == selected

\* mutant: the list is set to what was dropped, also when that is nothing
onDropAlways(prev, selected) == onFiles(selected)
\* onDrop, onChange: if (files.length) onFiles(files)
onDrop(prev, selected) == IF Len(selected) > 0 THEN onFiles(selected) ELSE prev

\* mutant: the uploaded key replaces the list
onS3UploadedReplacing(prev, key) == <<key>>
\* onS3Uploaded: setS3Keys((prev) => Array.from(new Set([...prev, key])))
onS3Uploaded(prev, key) ==
  IF \E j \in 1..Len(prev) : prev[j] = key THEN prev ELSE Append(prev, key)

\* mutant: the button stays enabled while a request is in flight
AudioGenerateDisabledWhenEmpty(list, keys, st) == Len(list) = 0 /\ Len(keys) = 0
\* disabled={(files.length === 0 && s3Keys.length === 0) || status === "processing"}
AudioGenerateDisabled(list, keys, st) ==
  (Len(list) = 0 /\ Len(keys) = 0) \/ st = "processing"
\* mutant: only the empty transcript returns early
TextEarlyReturnEmptyOnly(text) == ~Truthy(text)
\* processWithAI of the transcript page: if (!transcript.trim()) return
TextEarlyReturn(text) == IsBlank(text)
\* disabled={!transcript.trim() || status === "processing"}
TextGenerateDisabled(text, st) == IsBlank(text) \/ st = "processing"

InitClient ==
  /\ env \in { e \in Envs : S3Configured(e) /\ ~getOpenAI(e) }
  /\ req = [contentType |-> CT_OTHER, audio |-> << >>, style |-> << >>,
            keys |-> << >>, transcript |-> << >>]
  /\ pc = "off"
  /\ PostIdle
  /\ SumIdle
  /\ SignIdle
  /\ UnitIdle
  /\ cPage \in {"audio", "text"}
  /\ cFiles = << >> /\ cStyleFiles = << >> /\ cS3Keys = << >>
  /\ cStatus = "idle"
  /\ cTranscript = EMPTY /\ cSummary = EMPTY /\ cMinutes = EMPTY
  /\ cSelected = << >> /\ cUploads = << >> /\ cInflight = << >>


serverVars == <<env, postVars, sumVars, signVars, unitVars>>

\* onDrop / onChange of the audio input, with files or with none (a drop of
\* something that is no file, a dialog closed on an empty choice):
\* if (files.length) onFiles(files), then uploadToS3 for each
Drop ==
  /\ cPage = "audio"
  /\ \E selected \in Selections \cup { << >> } :
       /\ Len(cUploads) + Len(selected) <= MaxUploads
       /\ cSelected' = IF Len(selected) > 0 THEN selected ELSE cSelected
       /\ cFiles' = onDrop(cFiles, selected)
       /\ cUploads' = cUploads \o [j \in 1..Len(selected) |->
                                     [file |-> selected[j], phase |-> "signing", key |-> EMPTY]]
  /\ UNCHANGED <<serverVars, cPage, cStyleFiles, cS3Keys, cStatus, cTranscript, cSummary,
                 cMinutes, cInflight>>

\* signForS3 returns {url, key}: the PUT is started
SignSucceeds ==
  /\ \E u \in 1..Len(cUploads) :
       /\ cUploads[u].phase = "signing"
       /\ cUploads' = [cUploads EXCEPT ![u] = [@ EXCEPT !.phase = "putting",
                                                          !.key = IssuedKey(u, cUploads[u].file)]]
  /\ UNCHANGED <<serverVars, cPage, cFiles, cStyleFiles, cS3Keys, cStatus, cTranscript,
                 cSummary, cMinutes, cSelected, cInflight>>

\* signForS3 throws (fetch rejects, or !res.ok): caught and ignored
SignFails ==
  /\ \E u \in 1..Len(cUploads) :
       /\ cUploads[u].phase = "signing"
       /\ cUploads' = [cUploads EXCEPT ![u] = [@ EXCEPT !.phase = "failed"]]
  /\ UNCHANGED <<serverVars, cPage, cFiles, cStyleFiles, cS3Keys, cStatus, cTranscript,
                 cSummary, cMinutes, cSelected, cInflight>>

\* xhr.onload with a 2xx status: setS3Key(key); onS3Uploaded(key)
PutSucceeds ==
  /\ \E u \in 1..Len(cUploads) :
       /\ cUploads[u].phase = "putting"
       /\ cUploads' = [cUploads EXCEPT ![u] = [@ EXCEPT !.phase = "stored"]]
       /\ cS3Keys' = onS3Uploaded(cS3Keys, cUploads[u].key)
  /\ UNCHANGED <<serverVars, cPage, cFiles, cStyleFiles, cStatus, cTranscript, cSummary,
                 cMinutes, cSelected, cInflight>>

\* xhr.onload with another status, or xhr.onerror: caught and ignored
PutFails ==
  /\ \E u \in 1..Len(cUploads) :
       /\ cUploads[u].phase = "putting"
       /\ cUploads' = [cUploads EXCEPT ![u] = [@ EXCEPT !.phase = "failed"]]
  /\ UNCHANGED <<serverVars, cPage, cFiles, cStyleFiles, cS3Keys, cStatus, cTranscript,
                 cSummary, cMinutes, cSelected, cInflight>>

\* onChange of the style input (either page): setStyleFiles
SelectStyleFiles ==
  /\ cPage \in {"audio", "text"}
  /\ \E list \in ClientStyleLists : list # cStyleFiles /\ cStyleFiles' = list
  /\ UNCHANGED <<serverVars, cPage, cFiles, cS3Keys, cStatus, cTranscript, cSummary,
                 cMinutes, cSelected, cUploads, cInflight>>

\* the generate button of the audio page (shown with a non-empty list) pressed:
\* processWithAI up to its fetch
AudioProcessWithAI ==
  /\ cPage = "audio"
  /\ Len(cFiles) > 0
  /\ ~AudioGenerateDisabled(cFiles, cS3Keys, cStatus)
  /\ ~(Len(cFiles) = 0 /\ Len(cS3Keys) = 0)
  /\ cStatus' = "processing"
  /\ cTranscript' = EMPTY
  /\ cSummary' = EMPTY
  /\ LET request == IF Len(cS3Keys) > 0 /\ Len(cFiles) = 0
                      THEN [kind |-> "json", audio |-> << >>, style |-> << >>,
                            s3Keys |-> cS3Keys, transcript |-> EMPTY]
                      ELSE [kind |-> "multipart", audio |-> cFiles, style |-> cStyleFiles,
                            s3Keys |-> << >>, transcript |-> EMPTY]
     IN cInflight' = Append(cInflight, request)
  /\ UNCHANGED <<serverVars, cPage, cFiles, cStyleFiles, cS3Keys, cMinutes, cSelected,
                 cUploads>>

\* res.ok and res.json() resolves: transcript, summary, done
AudioResponseOk ==
  /\ cPage = "audio"
  /\ cInflight # << >>
  /\ \E data \in Replies :
       /\ cTranscript' = OrElse(Field(data, "transcript"), EMPTY)
       /\ cSummary' = OrElse(Field(data, "summary"), EMPTY)
  /\ cStatus' = "done"
  /\ cInflight' = Tail(cInflight)
  /\ UNCHANGED <<serverVars, cPage, cFiles, cStyleFiles, cS3Keys, cMinutes, cSelected,
                 cUploads>>

\* fetch rejects, !res.ok, or res.json() rejects: the catch
AudioRequestFails ==
  /\ cPage = "audio"
  /\ cInflight # << >>
  /\ cSummary' = PROCESS_ERROR
  /\ cStatus' = "done"
  /\ cInflight' = Tail(cInflight)
  /\ UNCHANGED <<serverVars, cPage, cFiles, cStyleFiles, cS3Keys, cTranscript, cMinutes,
                 cSelected, cUploads>>

\* handleFileUpload on a text file: onTextContent(content)
TextUploaded ==
  /\ cPage = "text"
  /\ \E content \in TextContents : content # cTranscript /\ cTranscript' = content
  /\ UNCHANGED <<serverVars, cPage, cFiles, cStyleFiles, cS3Keys, cStatus, cSummary,
                 cMinutes, cSelected, cUploads, cInflight>>

\* the generate button of the transcript page (shown with a transcript) pressed:
\* processWithAI up to its fetch
TextProcessWithAI ==
  /\ cPage = "text"
  /\ Truthy(cTranscript)
  /\ ~TextGenerateDisabled(cTranscript, cStatus)
  /\ ~TextEarlyReturn(cTranscript)
  /\ cStatus' = "processing"
  /\ cSummary' = EMPTY
  /\ cMinutes' = EMPTY
  /\ LET request == [kind |-> "multipart", audio |-> << >>, style |-> cStyleFiles,
                     s3Keys |-> << >>, transcript |-> cTranscript]
     IN cInflight' = Append(cInflight, request)
  /\ UNCHANGED <<serverVars, cPage, cFiles, cStyleFiles, cS3Keys, cTranscript, cSelected,
                 cUploads>>

\* res.ok and res.json() resolves: summary, minutes, done
TextResponseOk ==
  /\ cPage = "text"
  /\ cInflight # << >>
  /\ \E data \in Replies :
       /\ cSummary' = OrElse(Field(data, "summary"), EMPTY)
       /\ cMinutes' = OrElse(Field(data, "minutes"), EMPTY)
  /\ cStatus' = "done"
  /\ cInflight' = Tail(cInflight)
  /\ UNCHANGED <<serverVars, cPage, cFiles, cStyleFiles, cS3Keys, cTranscript, cSelected,
                 cUploads>>

\* fetch rejects, !res.ok, or res.json() rejects: the catch
TextRequestFails ==
  /\ cPage = "text"
  /\ cInflight # << >>
  /\ cSummary' = PROCESS_ERROR
  /\ cStatus' = "done"
  /\ cInflight' = Tail(cInflight)
  /\ UNCHANGED <<serverVars, cPage, cFiles, cStyleFiles, cS3Keys, cTranscript, cMinutes,
                 cSelected, cUploads>>

NextClient ==
  \/ Drop \/ SignSucceeds \/ SignFails \/ PutSucceeds \/ PutFails
  \/ SelectStyleFiles
  \/ AudioProcessWithAI \/ AudioResponseOk \/ AudioRequestFails
  \/ TextUploaded \/ TextProcessWithAI \/ TextResponseOk \/ TextRequestFails

SpecClient == InitClient /\ [][NextClient]_vars

\* ------------------- processWithAI of the transcript page, called as a function
\* the transcript page at its start, with one call of processWithAI to come
InitTextCall ==
  /\ env \in { e \in Envs : S3Configured(e) /\ ~getOpenAI(e) }
  /\ req = [contentType |-> CT_OTHER, audio |-> << >>, style |-> << >>,
            keys |-> << >>, transcript |-> << >>]
  /\ pc = "off"
  /\ PostIdle
  /\ SumIdle
  /\ SignIdle
  /\ uPc = "call" /\ uArgs = << >> /\ uResult = NONE
  /\ cPage = "text"
  /\ cFiles = << >> /\ cStyleFiles = << >> /\ cS3Keys = << >>
  /\ cStatus = "idle"
  /\ cTranscript = EMPTY /\ cSummary = EMPTY /\ cMinutes = EMPTY
  /\ cSelected = << >> /\ cUploads = << >> /\ cInflight = << >>

\* processWithAI up to its fetch, called whatever the button's state; uArgs
\* keeps the state the call found, uResult whether it went past the return
TextProcessWithAICall ==
  /\ cPage = "text"
  /\ uPc = "call"
  /\ uPc' = "returned"
  /\ uArgs' = [transcript |-> cTranscript, status |-> cStatus, summary |-> cSummary,
               minutes |-> cMinutes]
  /\ IF TextEarlyReturn(cTranscript)
       THEN /\ uResult' = Some(FALSE)
            /\ UNCHANGED <<cStatus, cSummary, cMinutes, cInflight>>
       ELSE /\ uResult' = Some(TRUE)
            /\ cStatus' = "processing"
            /\ cSummary' = EMPTY
            /\ cMinutes' = EMPTY
            /\ LET request == [kind |-> "multipart", audio |-> << >>, style |-> cStyleFiles,
                               s3Keys |-> << >>, transcript |-> cTranscript]
               IN cInflight' = Append(cInflight, request)
  /\ UNCHANGED <<env, postVars, sumVars, signVars, cPage, cFiles, cStyleFiles, cS3Keys,
                 cTranscript, cSelected, cUploads>>

NextTextCall ==
  \/ SelectStyleFiles
  \/ TextUploaded \/ TextProcessWithAI \/ TextResponseOk \/ TextRequestFails
  \/ TextProcessWithAICall

SpecTextCall == InitTextCall /\ [][NextTextCall]_vars

\* =================================================================== claims
\* what the history shows
LogIndices == 1..Len(log)
Range(f) == { f[x] : x \in DOMAIN f }
Happened(ev) == \E j \in LogIndices : log[j].ev = ev
Count(ev) == Cardinality({ j \in LogIndices : log[j].ev = ev })
ThrowingSteps == {"body", "getObject", "guideline_request", "summarize_arguments"}
Threw(j) == log[j].ev \in ThrowingSteps /\ ~log[j].ok
ExternalFailure ==
  \E j \in LogIndices : log[j].ev \in {"body", "getObject", "guideline_request"} /\ ~log[j].ok
AiRequests == {"stt_primary", "stt_fallback", "guideline_request", "summarize_request"}
Responded == response # NONE
Status == response[1].status
Body == response[1].body
ResponseFields == {"transcript", "summary", "minutes", "styleGuidelines", "usedAI"}

\* C1: a request served with no AI credential, and with no external call
\* failing, ends with a 200 response carrying the mock summary, a minutes body
\* and usedAI = false.
C1_NoCredentialMock200 ==
  (pc = "done" /\ ~getOpenAI(env) /\ ~ExternalFailure) =>
     /\ Status = 200
     /\ {"summary", "minutes", "usedAI"} \subseteq DOMAIN Body
     /\ Body["summary"] = MOCK_SUMMARY
     /\ Body["usedAI"] = FALSE

\* C2: a transcript-text submission (multipart, no audio, no storage key) whose
\* transcript is empty or whitespace-only is answered 400, and no AI request
\* is made for it.
BlankTranscriptSubmission ==
  /\ Includes(req.contentType, "multipart/form-data")
  /\ req.audio = << >> /\ req.keys = << >>
  /\ req.transcript # << >> /\ IsBlank(req.transcript[1])
C2_BlankTranscript400 ==
  (BlankTranscriptSubmission /\ ~Happened("body")) =>
     /\ \A j \in LogIndices : log[j].ev \notin AiRequests
     /\ pc = "done" => Status = 400

\* C3: every 200 response carries transcript, summary, minutes, styleGuidelines
\* and usedAI, and every result summarize returns has a summary and a minutes
\* body.
C3_ResultFieldsPresent ==
  /\ (Responded /\ Status = 200) => ResponseFields \subseteq DOMAIN Body
  /\ sPc = "returned" => {"summary", "minutes"} \subseteq DOMAIN sResult[1]

\* C4: with a credential, when transcribeAll returns for a batch (the direct
\* audio files, or the one file of a storage key) every file of the batch has
\* been attempted, a file whose two attempts failed did not end the request,
\* and the value returned is the non-empty texts of the files that were
\* transcribed, in input order, joined by blank lines.
Attempts(name) == { j \in LogIndices :
                      log[j].ev \in {"stt_primary", "stt_fallback"} /\ log[j].file = name }
BothFailed(name) == Cardinality(Attempts(name)) = 2 /\ \A j \in Attempts(name) : ~log[j].ok
HeardText(name) ==
  IF \E j \in Attempts(name) : log[j].ok
    THEN log[CHOOSE j \in Attempts(name) : log[j].ok].text
    ELSE EMPTY
RECURSIVE HeardInOrder(_)
HeardInOrder(files) ==
  IF files = << >> THEN << >>
  ELSE (IF HeardText(files[1].name) = EMPTY THEN << >> ELSE <<HeardText(files[1].name)>>)
         \o HeardInOrder(Tail(files))
RECURSIVE BlankLineJoined(_)
BlankLineJoined(texts) ==
  IF texts = << >> THEN EMPTY
  ELSE IF Len(texts) = 1 THEN texts[1]
  ELSE texts[1] \o <<"\n", "\n">> \o BlankLineJoined(Tail(texts))
UploadsReturned == pc = "s3" /\ caller = "uploads" /\ k = 1 /\ ~Happened("readFromS3Key")
C4_FailedFileContributesNothing ==
  /\ (UploadsReturned /\ openai /\ audioFiles # << >>) =>
        /\ \A j \in 1..Len(audioFiles) : Attempts(audioFiles[j].name) # {}
        /\ transcriptFromUploads = BlankLineJoined(HeardInOrder(audioFiles))
  /\ (pc = "s3" /\ caller = "s3" /\ openai) =>
        /\ Attempts(tFiles[1].name) # {}
        /\ EndsWith(transcriptFromUploads,
                    <<"\n", "\n">> \o BlankLineJoined(HeardInOrder(tFiles)))
  /\ (Responded /\ log # << >>) => log[Len(log)].ev \notin {"stt_primary", "stt_fallback"}
C4_Witness ==
  /\ UploadsReturned /\ openai /\ Len(audioFiles) >= 2
  /\ BothFailed(audioFiles[1].name)
  /\ transcriptFromUploads = PrimaryText(audioFiles[2])

\* C5: when the model's content does not parse, summarize returns a result
\* whose summary is the summary placeholder and whose minutes body is the
\* minutes placeholder.
MINUTES_PARSE_FAILED == Str("MINUTES_PARSE_FAILED")   \* "議事録本文の解析に失敗しました。"
ContentUnparsable == sArgs.openai /\ ~JSONParse(Coalesce(sContent, EMPTY_OBJECT_TEXT)).ok
C5_ParseFailurePlaceholders ==
  (sPc \in {"returned", "threw"} /\ ContentUnparsable) =>
     /\ sPc = "returned"
     /\ {"summary", "minutes"} \subseteq DOMAIN sResult[1]
     /\ sResult[1]["summary"] = SUMMARY_PARSE_FAILED
     /\ sResult[1]["minutes"] = MINUTES_PARSE_FAILED

\* C6: a corpus shorter than 200 characters gives empty style guidelines and
\* no guideline request, with or without a credential.
C6_ShortCorpusNoGuidelines ==
  Length(styleCorpus) < 200 =>
     /\ styleGuidelines = EMPTY
     /\ ~Happened("guideline_request")
C6_Witness ==
  /\ pc = "summarize" /\ openai
  /\ Length(styleCorpus) = 199
  /\ Happened("buildStyleGuidelines")

C8_KeysIgnoredWithAudio ==
  (req.audio # << >> /\ req.keys # << >>) =>
     /\ ~Happened("getObject")
     /\ \A j \in LogIndices : log[j].file \notin { FakeFileName(key) : key \in Range(req.keys) }

\* C9: in the order the steps of a request happen, every transcription step
\* (direct or storage-key audio) precedes style extraction, which precedes
\* guideline synthesis, which precedes minutes synthesis; no phase is entered
\* twice, and none is entered without the one before it.
Phase(ev) ==
  CASE ev = "body" -> 0
    [] ev \in {"transcribeAll", "stt_primary", "stt_fallback", "readFromS3Key", "getObject"} -> 1
    [] ev = "readStyleFiles" -> 2
    [] ev \in {"buildStyleGuidelines", "guideline_request"} -> 3
    [] ev \in {"summarize_arguments", "summarize_request"} -> 4
PhaseSteps(n) == { j \in LogIndices : Phase(log[j].ev) = n }
C9_PhasesInOrder ==
  /\ \A a, b \in LogIndices : a < b => Phase(log[a].ev) <= Phase(log[b].ev)
  /\ \A n \in 2..4 : Cardinality(PhaseSteps(n)) <= 1
  /\ \A n \in 2..4 : PhaseSteps(n) # {} => PhaseSteps(n - 1) # {}
  /\ (Responded /\ Status = 200) => \A n \in 1..4 : PhaseSteps(n) # {}
C9_Witness ==
  /\ pc = "done"
  /\ Happened("stt_primary") /\ Happened("getObject") /\ Happened("readStyleFiles")
  /\ Happened("guideline_request") /\ Happened("summarize_arguments")

\* C10: a file gets at most one primary and one fallback transcription
\* request, the fallback only right after its failed primary; a request makes
\* at most one guideline request and one synthesis request.
C10_AtMostTwoAttempts ==
  /\ \A j \in LogIndices :
       /\ log[j].ev = "stt_primary" =>
            \A h \in LogIndices : (log[h].ev = "stt_primary" /\ log[h].file = log[j].file) => h = j
       /\ log[j].ev = "stt_fallback" =>
            /\ j > 1 /\ log[j - 1].ev = "stt_primary"
            /\ log[j - 1].file = log[j].file /\ ~log[j - 1].ok
            /\ \A h \in LogIndices : (log[h].ev = "stt_fallback" /\ log[h].file = log[j].file) => h = j
  /\ Count("guideline_request") <= 1
  /\ Count("summarize_request") <= 1
C10_Witness ==
  /\ \E j \in LogIndices : log[j].ev = "stt_fallback" /\ ~log[j].ok
  /\ \E j \in LogIndices : log[j].ev = "stt_primary" /\ log[j].ok
  /\ Happened("guideline_request")

\* ---- C11
\* C11: POST /api/upload/sign answers 400 whenever one of the four storage
\* settings is absent, and 400 whenever the body's filename is missing or
\* empty; it answers 200 only with all four settings and a filename, and then
\* the body is {url, key}, the key reads uploads/<timestamp>_<random>.<ext>
\* and the URL is signed for 600 seconds.
StorageSettings ==
  { "AWS_REGION", "AWS_S3_BUCKET", "AWS_ACCESS_KEY_ID", "AWS_SECRET_ACCESS_KEY" }
AllSettingsPresent == \A n \in StorageSettings : env[n] # EMPTY
SignAnswered == signPc \in {"done", "threw"}
SignStatus == IF signResponse = NONE THEN 0 ELSE signResponse[1].status
SignFilename ==
  IF signBody[1].kind = "object" /\ "filename" \in DOMAIN signBody[1].json
    THEN signBody[1].json["filename"] ELSE EMPTY
KeyHasUploadForm(key) ==
  \E ext \in { SubSeq(key, j, Len(key)) : j \in 1..Len(key) } :
    /\ ext # EMPTY
    /\ \A j \in 1..Len(ext) : ext[j] # "."
    /\ \/ EndsWith(SignFilename, <<".">> \o ext)
       \/ SignFilename = ext
       \/ ext = <<"b", "i", "n">>
    /\ key = <<"uploads/">> \o signClock \o <<"_">> \o SubSeq(signRandom, 3, Len(signRandom))
               \o <<".">> \o ext
TagName(p) == IF Len(p) < 4 THEN << >> ELSE ToLowerCase(SubSeq(p, 2, 4))
IsOpen(p, tag) == p[1] = "<" /\ TagName(p) = (IF tag = "script" THEN <<"s", "c", "r">> ELSE <<"s", "t", "y">>)
IsClose(p, tag) == p[1] = "<" /\ TagName(p) = (IF tag = "script" THEN <<"/", "s", "c">> ELSE <<"/", "s", "t">>)
IsTextPiece(p) == p[1] # "<"
\* the pieces left once every block from an opening tag to the next closing
\* tag is taken out, scanning from the left
RECURSIVE OutsideBlocks(_, _)
OutsideBlocks(ps, tag) ==
  IF ps = << >> THEN << >>
  ELSE LET closes == { j \in 2..Len(ps) : IsClose(ps[j], tag) }
       IN IF IsOpen(ps[1], tag) /\ closes # {}
            THEN OutsideBlocks(SubSeq(ps, (CHOOSE j \in closes : \A h \in closes : j <= h) + 1,
                                      Len(ps)), tag)
            ELSE <<ps[1]>> \o OutsideBlocks(Tail(ps), tag)
HasScriptBlock(ps) ==
  \E a, b \in 1..Len(ps) : a < b /\ IsOpen(ps[a], "script") /\ IsClose(ps[b], "script")
VisibleText(ps) ==
  Flatten(SelectSeq(OutsideBlocks(OutsideBlocks(ps, "script"), "style"), IsTextPiece))
IsInk(c) == c \notin WS
StyleReturned == uPc = "returned" /\ "files" \in DOMAIN uArgs
C12_ScriptBodyExcluded ==
  (StyleReturned /\ HasScriptBlock(uArgs.pieces)) =>
    SelectSeq(uResult[1].value, IsInk) = VisibleText(uArgs.pieces)
C12_Witness ==
  /\ StyleReturned
  /\ uArgs.pieces = << <<"q">>, <<"<", "S", "C", "R", "I", "P", "T", " ", "a", ">">>, <<"1">>,
                       <<"<", "/", "s", "c", "r", "i", "p", "t", ">">> >>
  /\ uResult[1].value = <<"q">>

\* ---- C17
\* C17: readStyleFiles goes by the lower-cased extension of each file: a file
\* of no recognized extension is ignored, a rich document whose extraction
\* fails (or yields no text) contributes nothing, and the result is the
\* contributions of the other files, each what the file gives alone, in input
\* order and joined by the blank-line separator.
Extension(name) ==
  LET dots == { j \in 1..Len(name) : name[j] = "." }
  IN IF dots = {} THEN EMPTY
     ELSE ToLowerCase(SubSeq(name, CHOOSE j \in dots : \A h \in dots : h <= j, Len(name)))
Contributes(f, fails) ==
  \/ Extension(f.name) \in { <<".", "t", "x", "t">>, <<".", "m", "d">>,
                             <<".", "h", "t", "m", "l">>, <<".", "h", "t", "m">> }
  \/ Extension(f.name) = <<".", "d", "o", "c", "x">> /\ ~fails /\ f.content # EMPTY
RECURSIVE Contributions(_, _, _)
Contributions(files, failing, j) ==
  IF j > Len(files) THEN << >>
  ELSE (IF Contributes(files[j], j \in failing)
          THEN << readStyleFiles(<<files[j]>>, {}) >> ELSE << >>)
       \o Contributions(files, failing, j + 1)
C17_StyleDispatch ==
  StyleReturned =>
    uResult[1].value = Join(Contributions(uArgs.files, uResult[1].failing, 1), <<"\n", "\n">>)
C17_Witness ==
  /\ StyleReturned
  /\ Len(uArgs.files) = 3
  /\ uArgs.files[1].name = <<"A", ".", "T", "X", "T">>
  /\ uArgs.files[2].name = <<"c", ".", "d", "o", "c", "x">>
  /\ uArgs.files[3].name = <<"b", ".", "m", "d">>
  /\ uResult[1].failing = {2}
  /\ uResult[1].value = <<"t", "\n", "\n", "m">>

\* ---- C13
\* re-reading an export: the text of an element, its tags stripped and the five
\* entities unescaped in one pass from the left
Entities ==
  { <<AMP, "&">>, <<LT, "<">>, <<GT, ">">>, <<QUOT, "\"">>, <<APOS, "'">> }
RECURSIVE Unescape(_)
Unescape(s) ==
  IF s = << >> THEN << >>
  ELSE LET hit == { e \in Entities : Len(s) >= Len(e[1]) /\ SubSeq(s, 1, Len(e[1])) = e[1] }
       IN IF hit = {} THEN <<s[1]>> \o Unescape(Tail(s))
          ELSE LET e == CHOOSE x \in hit : TRUE
               IN <<e[2]>> \o Unescape(SubSeq(s, Len(e[1]) + 1, Len(s)))
RECURSIVE StripTags(_)
StripTags(s) ==
  IF s = << >> THEN << >>
  ELSE LET ends == { j \in 3..Len(s) : s[j] = ">" }
       IN IF s[1] = "<" /\ ends # {}
            THEN StripTags(SubSeq(s, (CHOOSE j \in ends : \A h \in ends : j <= h) + 1, Len(s)))
            ELSE <<s[1]>> \o StripTags(Tail(s))
FirstAt(doc, from, pat) ==
  LET hits == { j \in from..(Len(doc) - Len(pat) + 1) : SubSeq(doc, j, j + Len(pat) - 1) = pat }
  IN IF hits = {} THEN 0 ELSE CHOOSE j \in hits : \A h \in hits : j <= h
ElementText(doc, open, close) ==
  LET a == FirstAt(doc, 1, <<"<", open, ">">>)
      b == IF a = 0 THEN 0 ELSE FirstAt(doc, a + 3, <<"<", close, ">">>)
  IN IF b = 0 THEN << >> ELSE Unescape(StripTags(SubSeq(doc, a + 3, b - 1)))
ReadSummary == ElementText(uResult[1], "p", "/p")
ReadMinutes == ElementText(uResult[1], "pre style=white-space:pre-wrap", "/pre")
Exported == uPc = "exported"
\* C13 as claimed: for every (summary, minutes body), re-reading the HTML export
\* recovers the summary and the minutes body exactly.
C13_RoundTripEveryPair ==
  Exported => (ReadSummary = uArgs.summary /\ ReadMinutes = uArgs.generatedMinutes)
\* C13 amended: re-reading the HTML export recovers every non-empty summary
\* and every non-empty minutes body exactly, escaped characters and
\* already-escaped entities included; an empty one reads back as the
\* placeholder the export writes in its place.
C13_RoundTripNonEmpty ==
  Exported =>
    /\ ReadSummary = (IF uArgs.summary = << >> THEN <<"UNWRITTEN">> ELSE uArgs.summary)
    /\ ReadMinutes =
         (IF uArgs.generatedMinutes = << >> THEN <<"UNWRITTEN">> ELSE uArgs.generatedMinutes)
C13_Witness ==
  /\ Exported
  /\ uArgs.summary = <<"&", "a", "m", "p", ";">>
  /\ uArgs.generatedMinutes = <<"<", "'">>
  /\ ReadSummary = uArgs.summary
  /\ ReadMinutes = uArgs.generatedMinutes

\* ---- C15
\* C15: exceedsRecommendedSize(size) is true exactly when size is greater than
\* 300*1024*1024 bytes, isRecommendedFormat(name) is true exactly when the name
\* ends, in any letter case, with .mp3, .wav or .m4a, and neither result
\* depends on the other argument.
Hinted == uPc = "hinted"
LastFour(name) ==
  IF name = << >> \/ Len(name[1]) < 4 THEN << >>
  ELSE ToLowerCase(SubSeq(name[1], Len(name[1]) - 3, Len(name[1])))
C15_HintsExact ==
  Hinted =>
    /\ uResult[1].big <=> (uArgs.size # << >> /\ uArgs.size[1] > 314572800)
    /\ uResult[1].okFmt <=>
         LastFour(uArgs.name) \in { <<".", "m", "p", "3">>, <<".", "w", "a", "v">>,
                                    <<".", "m", "4", "a">> }
C15_Witness ==
  /\ Hinted
  /\ uArgs.name = <<<<"c", "u", "s", "t", "o", "m", ".", "o", "g", "g">>>>
  /\ uArgs.size = <<629145600>>
  /\ ~uResult[1].okFmt /\ uResult[1].big

\* ---- C16
\* C16: once every file of the request is transcribed, the transcript is
\* exactly the non-empty per-file texts, direct files first and then the
\* storage keys' files, in order, joined by one blank line, with no separator
\* at either end and none doubled.
TranscriptionOver == pc = "style"
StorageFileNames ==
  { n \in { log[x].file : x \in LogIndices } :
      \E x \in LogIndices : log[x].ev \in {"stt_primary", "stt_fallback"} /\ log[x].file = n
                            /\ \A j \in 1..Len(audioFiles) : audioFiles[j].name # n }
StorageFilesInOrder ==
  LET firstAttempt(n) == CHOOSE x \in Attempts(n) : \A y \in Attempts(n) : x <= y
      ordered[S \in SUBSET StorageFileNames] ==
        IF S = {} THEN << >>
        ELSE LET n == CHOOSE m \in S : \A o \in S : firstAttempt(m) <= firstAttempt(o)
             IN <<[name |-> n]>> \o ordered[S \ {n}]
  IN ordered[StorageFileNames]
C16_TranscriptJoinedOnce ==
  (TranscriptionOver /\ openai) =>
    transcriptFromUploads =
      BlankLineJoined(HeardInOrder(audioFiles) \o HeardInOrder(StorageFilesInOrder))

\* ---- C18
\* C18: transcribeAll returns the empty string for an empty list, with or
\* without a credential; it returns the mock marker, making no transcription
\* request, exactly when the list is not empty and there is no credential.
SttRequests == { j \in LogIndices : log[j].ev \in {"stt_primary", "stt_fallback"} }
C18_EmptyListBeforeCredential ==
  UploadsReturned =>
    /\ audioFiles = << >> => transcriptFromUploads = << >>
    /\ (transcriptFromUploads = <<"MOCK_TRANSCRIPT_ALL">> /\ SttRequests = {})
         <=> (audioFiles # << >> /\ ~getOpenAI(env))
C18_Witness ==
  /\ UploadsReturned
  /\ Len(audioFiles) = 2 /\ ~getOpenAI(env)
  /\ transcriptFromUploads = <<"MOCK_TRANSCRIPT_ALL">>
  /\ SttRequests = {}

\* ---- C14
Dropped == Len(cUploads') > Len(cUploads)
RequestStarted == Len(cInflight') > Len(cInflight)
\* C14 as claimed: every file the user has dropped or selected on the audio
\* page, whatever its extension and size, is in the file list.
C14_EveryDroppedFileListed ==
  cPage = "audio" => \A u \in 1..Len(cUploads) : cUploads[u].file \in Range(cFiles)
\* C14 amended: a drop or selection on the audio page makes the file list
\* exactly the files dropped, whatever their extension and size (replacing the
\* list that was there), and starts one upload for each of them; a press of
\* the generate button sends every file of the list in one multipart request.
C14_SelectionListedUploadedSent ==
  [][ /\ Dropped =>
           /\ cFiles' = cSelected'
           /\ Len(cUploads') = Len(cUploads) + Len(cSelected')
           /\ \A j \in 1..Len(cSelected') :
                /\ cUploads'[Len(cUploads) + j].file = cSelected'[j]
                /\ cUploads'[Len(cUploads) + j].phase = "signing"
      /\ (RequestStarted /\ cPage = "audio") =>
           /\ cInflight'[Len(cInflight')].kind = "multipart"
           /\ cInflight'[Len(cInflight')].audio = cFiles
           /\ cFiles # << >>
    ]_vars
C14_Witness ==
  /\ cPage = "audio"
  /\ cInflight # << >>
  /\ \E j \in 1..Len(cInflight[1].audio) :
       /\ cInflight[1].audio[j].name = <<"c", "u", "s", "t", "o", "m", ".", "o", "g", "g">>
       /\ cInflight[1].audio[j].size > 314572800
  /\ \E j \in 1..Len(cFiles) :
       /\ fileMeta(cFiles)[j].name = <<"c", "u", "s", "t", "o", "m", ".", "o", "g", "g">>
       /\ ~fileMeta(cFiles)[j].recommendedFormat
       /\ fileMeta(cFiles)[j].overRecommended
  /\ \E u \in 1..Len(cUploads) :
       /\ cUploads[u].file.name = <<"c", "u", "s", "t", "o", "m", ".", "o", "g", "g">>
       /\ cUploads[u].phase = "stored"

\* ---- C19
\* C19: whatever the order in which the uploads started together complete,
\* s3Keys holds exactly the keys of the uploads that were signed and whose PUT
\* ended 2xx, each once, and so it does when all of them have settled.
StoredKeys == { cUploads[u].key : u \in { v \in 1..Len(cUploads) : cUploads[v].phase = "stored" } }
AllSettled ==
  /\ cUploads # << >>
  /\ \A u \in 1..Len(cUploads) : cUploads[u].phase \in {"stored", "failed"}
C19_KeysOfStoredUploads ==
  /\ \A a, b \in 1..Len(cS3Keys) : a # b => cS3Keys[a] # cS3Keys[b]
  /\ Range(cS3Keys) \subseteq StoredKeys
  /\ AllSettled => Range(cS3Keys) = StoredKeys
C19_Witness ==
  /\ AllSettled
  /\ Len(cUploads) = 3
  /\ cUploads[1].phase = "stored" /\ cUploads[2].phase = "stored"
  /\ cUploads[3].phase = "failed" /\ cUploads[3].key # << >>
  /\ cS3Keys = <<cUploads[2].key, cUploads[1].key>>

\* ---- C20
\* C20: on both pages a run that set the status to processing ends with the
\* status done when its request settles, by a 200, a non-2xx answer or an
\* error; the status never goes back to idle; and while it is processing no
\* second request is started.
C20_ProcessingEndsDone ==
  [][ /\ cStatus # "idle" => cStatus' # "idle"
      /\ RequestStarted => (cStatus # "processing" /\ cStatus' = "processing")
      /\ Len(cInflight') < Len(cInflight) => (cStatus = "processing" /\ cStatus' = "done")
      /\ (cStatus' = "processing") <=> (Len(cInflight') = 1)
      /\ cStatus' # "processing" => cInflight' = << >>
    ]_vars
C20_Witness ==
  /\ cPage = "audio"
  /\ cStatus = "done"
  /\ cInflight = << >>
  /\ cSummary = <<"PROCESS_ERROR">>

\* ---- C21
\* C21: on the audio page, after any drops (with files or with none), style
\* selections and upload completions, a non-empty s3Keys goes with a non-empty
\* file list; and every request processWithAI has sent is the multipart one,
\* carrying the listed files, never the JSON {s3Keys} one.
C21_KeysImplyFilesMultipartOnly ==
  cPage = "audio" =>
    /\ Len(cS3Keys) > 0 => Len(cFiles) > 0
    /\ \A j \in 1..Len(cInflight) :
         /\ cInflight[j].kind = "multipart"
         /\ cInflight[j].audio # << >>
         /\ cInflight[j].s3Keys = << >>
C21_Witness ==
  /\ cPage = "audio"
  /\ Len(cS3Keys) = 2
  /\ Len(cFiles) = 1
  /\ cStatus = "processing"
  /\ Len(cInflight) = 1
  /\ cInflight[1].kind = "multipart"
  /\ cInflight[1].audio = cFiles
  /\ \A u \in 1..Len(cUploads) : cUploads[u].file # cFiles[1] => cUploads[u].phase = "stored"

\* ---- C22
\* C22: a call of the transcript page's processWithAI that finds an empty or
\* whitespace-only transcript sends no request to /api/minutes and leaves
\* status, summary and generatedMinutes as they were (and a call that finds
\* another transcript does send one).
TextCalled == uPc = "call" /\ uPc' = "returned"
C22_BlankTranscriptNoRequest ==
  [][ TextCalled =>
        IF IsBlank(cTranscript)
          THEN /\ cInflight' = cInflight
               /\ cStatus' = cStatus /\ cSummary' = cSummary /\ cMinutes' = cMinutes
               /\ cTranscript' = cTranscript /\ cStyleFiles' = cStyleFiles
          ELSE /\ Len(cInflight') = Len(cInflight) + 1
               /\ cInflight'[Len(cInflight')].transcript = cTranscript
    ]_vars
C22_Witness ==
  /\ cPage = "text"
  /\ uPc = "returned"
  /\ uResult = Some(FALSE)
  /\ uArgs.transcript = <<" ", " ">>
  /\ uArgs.status = "done" /\ uArgs.summary = <<"S">>
  /\ cStatus = "done" /\ cSummary = <<"S">>
  /\ cInflight = << >>

====
